---- MODULE Spec2Model ----
(***************************************************************************)
(* Model of src/SessionManager.py: the SessionManager registry and the     *)
(* SessionAwareDownloadExecutor, with the threads that call them.          *)
(*                                                                         *)
(* A DownloadSession object is kept in session_objs under its session id   *)
(* for as long as any thread may hold a reference to it; the registry      *)
(* dictionaries self.sessions, self.session_locks and self.active_futures  *)
(* are the key sets / maps sessions, session_locks and active_futures.     *)
(* A `with self.session_locks[sid]:` block is one step: every writer of a  *)
(* session's status and of its items' fields runs inside such a block and  *)
(* the block makes no blocking call, so the blocks of one session are      *)
(* serialised by the lock.  What is outside the blocks (the membership     *)
(* test before them, the dictionary lookups, the executor's unlocked       *)
(* reads and writes) is a step of its own.                                 *)
(***************************************************************************)
EXTENDS Integers, Sequences, FiniteSets, TLC

\* ------------------------------------------------------------------ bounds
MaxSessions == 2        \* session ids generate_session_id hands out
RunSessions == 1        \* sessions created where an executor runs
MaxItems == 2           \* items added to one session
NumCallers == 2         \* threads calling the registry API
NumExecs == 2           \* execute_session_downloads calls
MaxProgressCalls == 1   \* progress callbacks of one work function call
SessionTimeout == 1     \* session_timeout, in clock ticks
MaxTime == SessionTimeout + 2

\* --------------------------------------------------------------- constants
max_concurrent_sessions == 1
max_workers == 3

None == "<None>"        \* Python None of a string field or argument
NoTime == 0             \* Python None of a datetime field
NoProgress == -1        \* Python None of the progress argument
NoThread == 0           \* an unheld threading.Lock

Callers == 1..NumCallers
Execs == 1..NumExecs
SessionIds == 1..MaxSessions
RunIds == 1..RunSessions

VARIABLES
    sessions,        \* keys of self.sessions
    session_objs,    \* the DownloadSession objects, by session id
    session_locks,   \* keys of self.session_locks
    active_futures,  \* self.active_futures: session id -> list of futures
    cleanup_lock,    \* holder of self._cleanup_lock
    now,             \* datetime.now()
    callers,         \* the threads calling create/cancel/cleanup_session
    execs,           \* the execute_session_downloads calls
    futures          \* per call, the futures submitted to its pool

vars == <<sessions, session_objs, session_locks, active_futures, cleanup_lock,
          now, callers, execs, futures>>

\* ------------------------------------------------------------- data model
DownloadItem(id) ==
    [id |-> id, status |-> "queued", progress |-> 0, error_message |-> None,
     file_path |-> None, started_at |-> NoTime, completed_at |-> NoTime]

DownloadSession(t) ==
    [status |-> "pending", downloads |-> <<>>, completed_items |-> 0,
     failed_items |-> 0, total_items |-> 0, created_at |-> t,
     started_at |-> NoTime, completed_at |-> NoTime]

add_download_mutant(s, item) ==
    [s EXCEPT !.downloads = Append(@, item)]

add_download(s, item) ==
    [s EXCEPT !.downloads = Append(@, item),
              !.total_items = Len(s.downloads) + 1]

CountStatus(downloads, st) ==
    Cardinality({i \in 1..Len(downloads) : downloads[i].status = st})

ActiveStatuses == {"pending", "running"}

_get_active_sessions_count ==
    Cardinality({s \in sessions : session_objs[s].status \in ActiveStatuses})

\* line 332: the capacity test of create_session
AtCapacity_mutant(active) == active > max_concurrent_sessions

AtCapacity(active) == active >= max_concurrent_sessions

\* lines 223-226: the sessions the sweep finds expired, in dictionary order
Expired(current_time) ==
    {s \in sessions : current_time - session_objs[s].created_at > SessionTimeout}

RECURSIVE SetToSeq(_)
SetToSeq(S) ==
    IF S = {} THEN <<>>
    ELSE LET m == CHOOSE x \in S : \A y \in S : x <= y
         IN <<m>> \o SetToSeq(S \ {m})

\* lines 273-279: what cancel_session does to one item
CancelItem_mutant(item, t) ==
    IF item.status \in {"queued"}
    THEN [item EXCEPT !.status = "failed",
                      !.error_message = "Session cancelled",
                      !.completed_at = IF @ = NoTime THEN t ELSE @]
    ELSE item

CancelItem(item, t) ==
    IF item.status \in {"queued", "downloading"}
    THEN [item EXCEPT !.status = "failed",
                      !.error_message = "Session cancelled",
                      !.completed_at = IF @ = NoTime THEN t ELSE @]
    ELSE item

\* lines 260, 269-279: the session after cancel_session's locked block
CancelledSession_mutant(s, t) ==
    [s EXCEPT !.status = "cancelled", !.completed_at = t]

CancelledSession(s, t) ==
    [s EXCEPT !.status = "cancelled",
              !.completed_at = t,
              !.downloads = [i \in 1..Len(s.downloads) |->
                                CancelItem(s.downloads[i], t)]]

\* line 260: the statuses cancel_session refuses to cancel
CancelRefused_mutant(s) == s.status = "cancelled"

CancelRefused(s) == s.status \in {"completed", "cancelled"}

\* Future.cancel(): only a future that has not started is cancelled
CancelFuture(f) ==
    IF f.state = "PENDING" THEN [f EXCEPT !.state = "CANCELLED"] ELSE f

\* lines 264-266: the futures after cancel_session cancelled those registered
CancelFutures(fs, sid) ==
    IF sid \in DOMAIN active_futures
    THEN LET refs == {active_futures[sid][k] : k \in 1..Len(active_futures[sid])}
         IN [e \in Execs |-> [i \in 1..Len(fs[e]) |->
                IF <<e, i>> \in refs THEN CancelFuture(fs[e][i]) ELSE fs[e][i]]]
    ELSE fs

\* lines 469-475: the session after update_session_status's locked block
UpdatedStatus(s, status, t) ==
    [s EXCEPT !.status = status,
              !.started_at = IF status = "running" /\ s.started_at = NoTime
                             THEN t ELSE @,
              !.completed_at = IF status \in {"completed", "cancelled"}
                               THEN t ELSE @]

\* lines 436-451: one item after update_download_item applied its arguments
UpdatedItem_mutant(item, status, progress, error_message, file_path, t) ==
    [item EXCEPT
        !.status = IF status # None THEN status ELSE @,
        !.started_at = IF status = "downloading" THEN t ELSE @,
        !.completed_at = IF status \in {"completed", "failed"} THEN t ELSE @,
        !.progress = IF progress # NoProgress THEN progress ELSE @,
        !.error_message = IF error_message # None THEN error_message ELSE @,
        !.file_path = IF file_path # None THEN file_path ELSE @]

UpdatedItem(item, status, progress, error_message, file_path, t) ==
    [item EXCEPT
        !.status = IF status # None THEN status ELSE @,
        !.started_at = IF status = "downloading" /\ item.started_at = NoTime
                       THEN t ELSE @,
        !.completed_at = IF status \in {"completed", "failed"} THEN t ELSE @,
        !.progress = IF progress # NoProgress THEN progress ELSE @,
        !.error_message = IF error_message # None THEN error_message ELSE @,
        !.file_path = IF file_path # None THEN file_path ELSE @]

\* lines 434-435, 452: the first item with the given id, 0 when there is none
FindItem_mutant(downloads, item_id) ==
    IF Len(downloads) = 0 THEN 0 ELSE 1

FindItem(downloads, item_id) ==
    IF \E i \in 1..Len(downloads) : downloads[i].id = item_id
    THEN CHOOSE i \in 1..Len(downloads) :
            /\ downloads[i].id = item_id
            /\ \A j \in 1..(i - 1) : downloads[j].id # item_id
    ELSE 0

\* lines 454-455: the counters are recomputed by a scan of all items
Recount_mutant(s) ==
    [s EXCEPT !.completed_items = CountStatus(s.downloads, "completed")]

Recount(s) ==
    [s EXCEPT !.completed_items = CountStatus(s.downloads, "completed"),
              !.failed_items = CountStatus(s.downloads, "failed")]

\* lines 433-455: the session after update_download_item's locked block
UpdatedDownload_mutant(s, item_id, status, progress, error_message, file_path, t) ==
    LET k == FindItem(s.downloads, item_id)
        p == IF progress = 0 THEN NoProgress ELSE progress
        d == IF k = 0 THEN s.downloads
             ELSE [s.downloads EXCEPT ![k] =
                      UpdatedItem(@, status, p, error_message, file_path, t)]
    IN Recount([s EXCEPT !.downloads = d])

UpdatedDownload(s, item_id, status, progress, error_message, file_path, t) ==
    LET k == FindItem(s.downloads, item_id)
        d == IF k = 0 THEN s.downloads
             ELSE [s.downloads EXCEPT ![k] =
                      UpdatedItem(@, status, progress, error_message, file_path, t)]
    IN Recount([s EXCEPT !.downloads = d])

\* ------------------------------------------------------------------- Init
\* lines 414-419: the arguments of update_download_item left at None
NoArgs == [status |-> None, progress |-> NoProgress, error_message |-> None,
           file_path |-> None]

IdleCaller == [pc |-> "idle", op |-> "none", sid |-> 0, target |-> 0,
               res |-> "none", expired |-> <<>>, size |-> 0, time |-> 0,
               item |-> 0, args |-> NoArgs]

IdleExec == [pc |-> "idle", sid |-> 0, conc |-> 0, res |-> "none",
             completed_count |-> 0, failed_count |-> 0]

Init ==
    /\ sessions = {}
    /\ session_objs = <<>>
    /\ session_locks = {}
    /\ active_futures = <<>>
    /\ cleanup_lock = NoThread
    /\ now = 1
    /\ callers = [c \in Callers |-> IdleCaller]
    /\ execs = [e \in Execs |-> IdleExec]
    /\ futures = [e \in Execs |-> <<>>]

\* ------------------------------------------------- registry: its callers
\* a call returns (or raises) res to its caller
Return(c, res) == callers' = [callers EXCEPT ![c] = [IdleCaller EXCEPT !.res = res]]

Goto(c, pc) == callers' = [callers EXCEPT ![c].pc = pc]

\* an exception leaving `with self._cleanup_lock:` of the sweep releases it
ReleasedBy(c) == IF cleanup_lock = c THEN NoThread ELSE cleanup_lock

\* lines 347-355: uuid4 gives an id no session has and no other call holds;
\* ids are opaque, so it is the least such id
UsedIds ==
    DOMAIN session_objs \cup
    {callers[c].sid : c \in {d \in Callers : callers[d].op = "create"}}

generate_session_id ==
    IF SessionIds \ UsedIds = {} THEN 0
    ELSE CHOOSE x \in SessionIds \ UsedIds : \A y \in SessionIds \ UsedIds : x <= y

\* line 326: create_session starts with a fresh id
CreateCall(c) ==
    /\ callers[c].pc = "idle"
    /\ generate_session_id # 0
    /\ callers' = [callers EXCEPT ![c] =
            [IdleCaller EXCEPT !.pc = "sweep_lock", !.op = "create",
                               !.sid = generate_session_id]]
    /\ UNCHANGED <<sessions, session_objs, session_locks, active_futures,
                   cleanup_lock, now, execs, futures>>

\* lines 218-223: the sweep takes the cleanup lock, reads the clock and
\* starts iterating self.sessions
SweepAcquire(c) ==
    /\ callers[c].pc = "sweep_lock"
    /\ cleanup_lock = NoThread
    /\ cleanup_lock' = c
    /\ callers' = [callers EXCEPT ![c].pc = "sweep_scan",
                                  ![c].time = now,
                                  ![c].size = Cardinality(sessions)]
    /\ UNCHANGED <<sessions, session_objs, session_locks, active_futures,
                   now, execs, futures>>

\* lines 223-230: the iteration ends; a dictionary whose size changed under
\* it raises RuntimeError, otherwise the expired sessions are cleaned up
SweepScan(c) ==
    /\ callers[c].pc = "sweep_scan"
    /\ IF Cardinality(sessions) # callers[c].size
       THEN /\ Return(c, "RuntimeError")
            /\ cleanup_lock' = NoThread
       ELSE LET exp == SetToSeq(Expired(callers[c].time))
            IN IF exp = <<>>
               THEN /\ Goto(c, "count")
                    /\ cleanup_lock' = NoThread
               ELSE /\ callers' = [callers EXCEPT ![c].pc = "cleanup_check",
                                                  ![c].expired = exp,
                                                  ![c].target = Head(exp)]
                    /\ UNCHANGED cleanup_lock
    /\ UNCHANGED <<sessions, session_objs, session_locks, active_futures,
                   now, execs, futures>>

\* lines 229-230, 218: after one cleanup_session of the sweep, the next
\* expired session or the end of the sweep
SweepContinue(c) ==
    LET rest == Tail(callers[c].expired)
    IN IF rest = <<>>
       THEN /\ callers' = [callers EXCEPT ![c].pc = "count", ![c].expired = <<>>]
            /\ cleanup_lock' = NoThread
       ELSE /\ callers' = [callers EXCEPT ![c].pc = "cleanup_check",
                                          ![c].expired = rest,
                                          ![c].target = Head(rest)]
            /\ UNCHANGED cleanup_lock

\* line 283: cleanup_session is called
CleanupCall(c, s) ==
    /\ callers[c].pc = "idle"
    /\ callers' = [callers EXCEPT ![c] =
            [IdleCaller EXCEPT !.pc = "cleanup_check", !.op = "cleanup",
                               !.target = s]]
    /\ UNCHANGED <<sessions, session_objs, session_locks, active_futures,
                   cleanup_lock, now, execs, futures>>

\* lines 294-298: cleanup_session's membership test
CleanupCheck(c) ==
    /\ callers[c].pc = "cleanup_check"
    /\ IF callers[c].target \in sessions
       THEN Goto(c, "cancel_check") /\ UNCHANGED cleanup_lock
       ELSE IF callers[c].op = "create"
            THEN SweepContinue(c)
            ELSE Return(c, "False") /\ UNCHANGED cleanup_lock
    /\ UNCHANGED <<sessions, session_objs, session_locks, active_futures,
                   now, execs, futures>>

\* line 243: cancel_session is called
CancelCall(c, s) ==
    /\ callers[c].pc = "idle"
    /\ callers' = [callers EXCEPT ![c] =
            [IdleCaller EXCEPT !.pc = "cancel_check", !.op = "cancel",
                               !.target = s]]
    /\ UNCHANGED <<sessions, session_objs, session_locks, active_futures,
                   cleanup_lock, now, execs, futures>>

\* cancel_session returns res: to its caller, or into cleanup_session
CancelReturn(c, res) ==
    IF callers[c].op = "cancel" THEN Return(c, res) ELSE Goto(c, "cleanup_pop")

\* lines 254-256: cancel_session's membership test
CancelCheck(c) ==
    /\ callers[c].pc = "cancel_check"
    /\ IF callers[c].target \in sessions
       THEN Goto(c, "cancel_lock")
       ELSE CancelReturn(c, "False")
    /\ UNCHANGED <<sessions, session_objs, session_locks, active_futures,
                   cleanup_lock, now, execs, futures>>

\* lines 258-281: cancel_session's locked block
CancelLock(c) ==
    LET s == callers[c].target
    IN /\ callers[c].pc = "cancel_lock"
       /\ IF s \notin session_locks \/ s \notin sessions
          THEN /\ Return(c, "KeyError")
               /\ cleanup_lock' = ReleasedBy(c)
               /\ UNCHANGED <<session_objs, futures>>
          ELSE /\ UNCHANGED cleanup_lock
               /\ IF CancelRefused(session_objs[s])
                  THEN /\ CancelReturn(c, "False")
                       /\ UNCHANGED <<session_objs, futures>>
                  ELSE /\ CancelReturn(c, "True")
                       /\ futures' = CancelFutures(futures, s)
                       /\ session_objs' = [session_objs EXCEPT ![s] =
                                              CancelledSession(@, now)]
       /\ UNCHANGED <<sessions, session_locks, active_futures, now,
                      execs>>

CleanupPop_mutant(c) ==
    LET s == callers[c].target
    IN /\ callers[c].pc = "cleanup_pop"
       /\ cleanup_lock = NoThread
       /\ sessions' = sessions \ {s}
       /\ session_locks' = session_locks \ {s}
       /\ IF callers[c].op = "create"
          THEN SweepContinue(c)
          ELSE Return(c, "True") /\ UNCHANGED cleanup_lock
       /\ UNCHANGED <<session_objs, active_futures, now, execs, futures>>

\* lines 300-306: cleanup_session removes the session under the cleanup lock
\* (one step: a thread that passed a membership test fails with KeyError on
\* the lock lookup or on the session lookup alike, whichever pop it meets)
CleanupPop(c) ==
    LET s == callers[c].target
    IN /\ callers[c].pc = "cleanup_pop"
       /\ cleanup_lock = NoThread
       /\ sessions' = sessions \ {s}
       /\ session_locks' = session_locks \ {s}
       /\ active_futures' = [k \in DOMAIN active_futures \ {s} |->
                                active_futures[k]]
       /\ IF callers[c].op = "create"
          THEN SweepContinue(c)
          ELSE Return(c, "True") /\ UNCHANGED cleanup_lock
       /\ UNCHANGED <<session_objs, now, execs, futures>>

\* lines 330-334: the capacity test
Count(c) ==
    /\ callers[c].pc = "count"
    /\ IF AtCapacity(_get_active_sessions_count)
       THEN Return(c, "CapacityExceeded")
       ELSE Goto(c, "insert_session")
    /\ UNCHANGED <<sessions, session_objs, session_locks, active_futures,
                   cleanup_lock, now, execs, futures>>

\* lines 336-340
InsertSession(c) ==
    /\ callers[c].pc = "insert_session"
    /\ sessions' = sessions \cup {callers[c].sid}
    /\ session_objs' = session_objs @@ (callers[c].sid :> DownloadSession(now))
    /\ Goto(c, "insert_lock")
    /\ UNCHANGED <<session_locks, active_futures, cleanup_lock, now,
                   execs, futures>>

\* line 341
InsertLock(c) ==
    /\ callers[c].pc = "insert_lock"
    /\ session_locks' = session_locks \cup {callers[c].sid}
    /\ Goto(c, "insert_futures")
    /\ UNCHANGED <<sessions, session_objs, active_futures, cleanup_lock,
                   now, execs, futures>>

\* lines 342-345
InsertFutures(c) ==
    /\ callers[c].pc = "insert_futures"
    /\ active_futures' = (callers[c].sid :> <<>>) @@ active_futures
    /\ Return(c, "created")
    /\ UNCHANGED <<sessions, session_objs, session_locks, cleanup_lock,
                   now, execs, futures>>

\* the create_session call that made session s has returned it
Returned(s) ==
    /\ s \in DOMAIN session_objs
    /\ \A c \in Callers :
          ~(callers[c].op = "create" /\ callers[c].sid = s
            /\ callers[c].pc # "idle")

\* no execute_session_downloads call has been made for session s
NotExecuted(s) == \A e \in Execs : execs[e].sid # s

\* downloader.py lines 47-59, 160-172: the creator of a session adds its
\* items before it starts the executor thread
AddDownload(s) ==
    /\ Returned(s)
    /\ NotExecuted(s)
    /\ session_objs[s].status = "pending"
    /\ Len(session_objs[s].downloads) < MaxItems
    /\ session_objs' = [session_objs EXCEPT ![s] =
          add_download(@, DownloadItem(Len(session_objs[s].downloads) + 1))]
    /\ UNCHANGED <<sessions, session_locks, active_futures, cleanup_lock,
                   now, callers, execs, futures>>

\* datetime.now() advances
Tick ==
    /\ now < MaxTime
    /\ now' = now + 1
    /\ UNCHANGED <<sessions, session_objs, session_locks, active_futures,
                   cleanup_lock, callers, execs, futures>>

\* the arguments a client passes to update_download_item: a status alone,
\* what the completion and error callbacks pass, a progress of 0, or nothing
UpdateArgs ==
    {[NoArgs EXCEPT !.status = "downloading"],
     [NoArgs EXCEPT !.status = "completed", !.progress = 100,
                    !.file_path = "file"],
     [NoArgs EXCEPT !.status = "failed", !.error_message = "error"],
     [NoArgs EXCEPT !.progress = 0],
     NoArgs}

\* the item ids a client passes: those of the items, and one no item has
ItemIds == 1..(MaxItems + 1)

\* line 414: update_download_item is called
UpdateCall(c, s, item_id, args) ==
    /\ callers[c].pc = "idle"
    /\ callers' = [callers EXCEPT ![c] =
            [IdleCaller EXCEPT !.pc = "update_check", !.op = "update",
                               !.target = s, !.item = item_id, !.args = args]]
    /\ UNCHANGED <<sessions, session_objs, session_locks, active_futures,
                   cleanup_lock, now, execs, futures>>

\* line 431: update_download_item's membership test
UpdateCheck(c) ==
    /\ callers[c].pc = "update_check"
    /\ IF callers[c].target \in sessions
       THEN Goto(c, "update_lock")
       ELSE Return(c, "returned")
    /\ UNCHANGED <<sessions, session_objs, session_locks, active_futures,
                   cleanup_lock, now, execs, futures>>

\* lines 432-456: update_download_item's locked block
UpdateLock(c) ==
    LET s == callers[c].target
        a == callers[c].args
    IN /\ callers[c].pc = "update_lock"
       /\ IF s \notin session_locks \/ s \notin sessions
          THEN /\ Return(c, "KeyError")
               /\ UNCHANGED session_objs
          ELSE /\ Return(c, "returned")
               /\ session_objs' = [session_objs EXCEPT ![s] =
                     UpdatedDownload(@, callers[c].item, a.status, a.progress,
                                     a.error_message, a.file_path, now)]
       /\ UNCHANGED <<sessions, session_locks, active_futures, cleanup_lock,
                      now, execs, futures>>

\* --------------------------------------------------------- the executor
\* the values of max_concurrent_downloads tried; 0 stands for None
ConcurrencyArgs == {-1, 0, 1}
ProgressValues == {0, 5}

\* line 620: max_concurrent_downloads or self.max_workers
EffectiveConcurrency(m) == IF m = 0 THEN max_workers ELSE m

\* the future executor.submit returns for the task of one item
NewFuture(item_id) ==
    [item |-> item_id, state |-> "PENDING", pc |-> "queued", phase |-> "start",
     result |-> "none", prog |-> 0, comp |-> FALSE, err |-> FALSE,
     fault |-> FALSE, args |-> NoArgs]

\* lines 608-615: the preconditions of execute_session_downloads
Precondition_mutant(s) ==
    IF s \notin sessions THEN "SessionNotFound"
    ELSE IF session_objs[s].status = "running" THEN "InvalidState"
    ELSE "ok"

Precondition_cancelled_mutant(s) ==
    IF s \notin sessions THEN "SessionNotFound"
    ELSE IF session_objs[s].status \notin {"pending", "cancelled"}
         THEN "InvalidState"
    ELSE "ok"

Precondition(s) ==
    IF s \notin sessions THEN "SessionNotFound"
    ELSE IF session_objs[s].status # "pending" THEN "InvalidState"
    ELSE "ok"

\* lines 620-622: ThreadPoolExecutor rejects a pool size below 1
AfterRunning(e) == IF execs[e].conc <= 0 THEN "fault_check" ELSE "submit"

\* lines 608-617
ExecCall(e, s, m) ==
    /\ execs[e].pc = "idle"
    /\ execs' = [execs EXCEPT ![e] =
          IF Precondition(s) = "ok"
          THEN [IdleExec EXCEPT !.pc = "run_check", !.sid = s,
                                !.conc = EffectiveConcurrency(m)]
          ELSE [IdleExec EXCEPT !.pc = "done", !.sid = s,
                                !.res = Precondition(s)]]
    /\ UNCHANGED <<sessions, session_objs, session_locks, active_futures,
                   cleanup_lock, now, callers, futures>>

\* line 617 -> 467: update_session_status(RUNNING), its membership test
ExecRunCheck(e) ==
    /\ execs[e].pc = "run_check"
    /\ execs' = [execs EXCEPT ![e].pc =
          IF execs[e].sid \in sessions THEN "run_lock" ELSE AfterRunning(e)]
    /\ UNCHANGED <<sessions, session_objs, session_locks, active_futures,
                   cleanup_lock, now, callers, futures>>

\* line 617 -> 468-472: update_session_status(RUNNING), its locked block; a
\* KeyError leaves execute_session_downloads before its try statement
ExecRunLock(e) ==
    LET s == execs[e].sid
    IN /\ execs[e].pc = "run_lock"
       /\ IF s \notin session_locks \/ s \notin sessions
          THEN /\ execs' = [execs EXCEPT ![e].pc = "done", ![e].res = "KeyError"]
               /\ UNCHANGED session_objs
          ELSE /\ execs' = [execs EXCEPT ![e].pc = AfterRunning(e)]
               /\ session_objs' = [session_objs EXCEPT ![s] =
                                      UpdatedStatus(@, "running", now)]
       /\ UNCHANGED <<sessions, session_locks, active_futures, cleanup_lock,
                      now, callers, futures>>

\* lines 624-628: one executor.submit
ExecSubmit(e) ==
    LET d == session_objs[execs[e].sid].downloads
        k == Len(futures[e]) + 1
    IN /\ execs[e].pc = "submit"
       /\ k <= Len(d)
       /\ futures' = [futures EXCEPT ![e] = Append(@, NewFuture(d[k].id))]
       /\ UNCHANGED <<sessions, session_objs, session_locks, active_futures,
                      cleanup_lock, now, callers, execs>>

\* line 630: the futures are registered, without any lock
ExecRegister(e) ==
    LET s == execs[e].sid
    IN /\ execs[e].pc = "submit"
       /\ Len(futures[e]) = Len(session_objs[s].downloads)
       /\ active_futures' =
             (s :> [i \in 1..Len(futures[e]) |-> <<e, i>>]) @@ active_futures
       /\ execs' = [execs EXCEPT ![e].pc = "wait"]
       /\ UNCHANGED <<sessions, session_objs, session_locks, cleanup_lock,
                      now, callers, futures>>

Done(f) == f.state \in {"FINISHED", "CANCELLED_AND_NOTIFIED"}

\* lines 632-646: as_completed has yielded every future; the counts; then
\* update_session_status(COMPLETED), its membership test
ExecWait(e) ==
    LET fs == futures[e]
        ok == {i \in 1..Len(fs) : fs[i].result = "True"}
    IN /\ execs[e].pc = "wait"
       /\ \A i \in 1..Len(fs) : Done(fs[i])
       /\ execs' = [execs EXCEPT
             ![e].completed_count = Cardinality(ok),
             ![e].failed_count = Len(fs) - Cardinality(ok),
             ![e].pc = IF execs[e].sid \in sessions THEN "complete_lock"
                       ELSE "finally"]
       /\ UNCHANGED <<sessions, session_objs, session_locks, active_futures,
                      cleanup_lock, now, callers, futures>>

\* lines 646, 650: the status the executor gives the session at the end
FinalStatus(completed_count, failed_count) == "completed"

\* line 646 -> 468-475: update_session_status(COMPLETED), its locked block
ExecCompleteLock(e) ==
    LET s == execs[e].sid
    IN /\ execs[e].pc = "complete_lock"
       /\ IF s \notin session_locks \/ s \notin sessions
          THEN /\ execs' = [execs EXCEPT ![e].pc = "fault_check"]
               /\ UNCHANGED session_objs
          ELSE /\ execs' = [execs EXCEPT ![e].pc = "finally"]
               /\ session_objs' = [session_objs EXCEPT ![s] =
                     UpdatedStatus(@, FinalStatus(execs[e].completed_count,
                                                  execs[e].failed_count), now)]
       /\ UNCHANGED <<sessions, session_locks, active_futures, cleanup_lock,
                      now, callers, futures>>

\* lines 649-650 -> 467: the except clause, update_session_status(COMPLETED),
\* its membership test
ExecFaultCheck(e) ==
    /\ execs[e].pc = "fault_check"
    /\ execs' = [execs EXCEPT
          ![e].res = "ExecutorFault",
          ![e].pc = IF execs[e].sid \in sessions THEN "fault_lock"
                    ELSE "finally"]
    /\ UNCHANGED <<sessions, session_objs, session_locks, active_futures,
                   cleanup_lock, now, callers, futures>>

\* line 650 -> 468-475: the except clause, the locked block
ExecFaultLock(e) ==
    LET s == execs[e].sid
    IN /\ execs[e].pc = "fault_lock"
       /\ execs' = [execs EXCEPT ![e].pc = "finally"]
       /\ IF s \notin session_locks \/ s \notin sessions
          THEN UNCHANGED session_objs
          ELSE session_objs' = [session_objs EXCEPT ![s] =
                  UpdatedStatus(@, FinalStatus(execs[e].completed_count,
                                               execs[e].failed_count), now)]
       /\ UNCHANGED <<sessions, session_locks, active_futures, cleanup_lock,
                      now, callers, futures>>

\* lines 653-655: the finally clause; then the call returns or re-raises
ExecFinally_mutant(e) ==
    /\ execs[e].pc = "finally"
    /\ execs' = [execs EXCEPT
          ![e].pc = "done",
          ![e].res = IF execs[e].res = "none" THEN "returned" ELSE @]
    /\ UNCHANGED <<sessions, session_objs, session_locks, active_futures,
                   cleanup_lock, now, callers, futures>>

ExecFinally(e) ==
    LET s == execs[e].sid
    IN /\ execs[e].pc = "finally"
       /\ active_futures' = [k \in DOMAIN active_futures \ {s} |->
                                active_futures[k]]
       /\ execs' = [execs EXCEPT
             ![e].pc = "done",
             ![e].res = IF execs[e].res = "none" THEN "returned" ELSE @]
       /\ UNCHANGED <<sessions, session_objs, session_locks, cleanup_lock,
                      now, callers, futures>>

\* ------------------------------------------------------ the pool's tasks
SetFuture(e, i, f) ==
    /\ futures' = [futures EXCEPT ![e][i] = f]
    /\ UNCHANGED <<sessions, session_locks, active_futures, cleanup_lock,
                   now, callers, execs>>

\* the first work item still in the pool's queue, 0 when it is empty
QueueHead_mutant(e) ==
    LET q == {i \in 1..Len(futures[e]) :
                 futures[e][i].state \in {"PENDING", "CANCELLED"}}
    IN IF q = {} THEN 0 ELSE CHOOSE i \in q : \A j \in q : i >= j

QueueHead(e) ==
    LET q == {i \in 1..Len(futures[e]) :
                 futures[e][i].state \in {"PENDING", "CANCELLED"}}
    IN IF q = {} THEN 0 ELSE CHOOSE i \in q : \A j \in q : i <= j

Running_mutant(e) == 0

Running(e) ==
    Cardinality({i \in 1..Len(futures[e]) : futures[e][i].state = "RUNNING"})

\* a free worker thread takes the next work item: a cancelled one is
\* dropped, another starts _download_with_session_context (line 544)
Dequeue_mutant(e) ==
    LET i == QueueHead(e)
    IN /\ i # 0
       /\ futures[e][i].state = "PENDING"
       /\ Running(e) < execs[e].conc
       /\ SetFuture(e, i, [futures[e][i] EXCEPT
                              !.state = "RUNNING", !.pc = "check",
                              !.args = [NoArgs EXCEPT !.status = "downloading"]])
       /\ UNCHANGED session_objs

Dequeue(e) ==
    LET i == QueueHead(e)
    IN /\ i # 0
       /\ Running(e) < execs[e].conc
       /\ SetFuture(e, i,
             IF futures[e][i].state = "CANCELLED"
             THEN [futures[e][i] EXCEPT !.state = "CANCELLED_AND_NOTIFIED",
                                        !.pc = "done"]
             ELSE [futures[e][i] EXCEPT
                      !.state = "RUNNING", !.pc = "check",
                      !.args = [NoArgs EXCEPT !.status = "downloading"]])
       /\ UNCHANGED session_objs

\* the task goes on after an update_download_item call returned
AfterUpdate(f) ==
    IF f.phase = "except"
    THEN [f EXCEPT !.state = "FINISHED", !.pc = "done", !.result = "False",
                   !.args = NoArgs]
    ELSE [f EXCEPT !.pc = "fn", !.phase = "fn", !.args = NoArgs]

\* line 431: update_download_item is called with args, its membership test
EnterUpdate(s, f, args) ==
    IF s \in sessions THEN [f EXCEPT !.pc = "lock", !.args = args]
    ELSE AfterUpdate(f)

\* lines 557-561: the except clause of _download_with_session_context
Except_mutant(s, f, description) ==
    EnterUpdate(s, [f EXCEPT !.phase = "except"],
                [NoArgs EXCEPT !.status = "failed"])

Except(s, f, description) ==
    EnterUpdate(s, [f EXCEPT !.phase = "except"],
                [NoArgs EXCEPT !.status = "failed",
                               !.error_message = description])

\* line 431, reached from line 544: the membership test of the first update
TaskCheck(e, i) ==
    /\ i \in DOMAIN futures[e]
    /\ futures[e][i].state = "RUNNING"
    /\ futures[e][i].pc = "check"
    /\ SetFuture(e, i, EnterUpdate(execs[e].sid, futures[e][i],
                                   futures[e][i].args))
    /\ UNCHANGED session_objs

\* lines 432-456: update_download_item's locked block; a KeyError goes to
\* the except clause, and out of the task when raised inside that clause
TaskLock(e, i) ==
    LET s == execs[e].sid
        f == futures[e][i]
    IN /\ i \in DOMAIN futures[e]
       /\ f.state = "RUNNING"
       /\ f.pc = "lock"
       /\ IF s \notin session_locks \/ s \notin sessions
          THEN /\ UNCHANGED session_objs
               /\ SetFuture(e, i,
                     IF f.phase = "except"
                     THEN [f EXCEPT !.state = "FINISHED", !.pc = "done",
                                    !.result = "exception", !.args = NoArgs]
                     ELSE Except(s, f, "KeyError"))
          ELSE /\ session_objs' = [session_objs EXCEPT ![s] =
                     UpdatedDownload(@, f.item, f.args.status, f.args.progress,
                                     f.args.error_message, f.args.file_path, now)]
               /\ SetFuture(e, i, AfterUpdate(f))

\* lines 579-589: the work function calls progress_callback, which it does
\* before it reports the outcome
WorkProgress(e, i, p) ==
    LET f == futures[e][i]
    IN /\ i \in DOMAIN futures[e]
       /\ f.state = "RUNNING"
       /\ f.pc = "fn"
       /\ f.prog < MaxProgressCalls
       /\ ~f.comp /\ ~f.err
       /\ SetFuture(e, i, EnterUpdate(execs[e].sid,
             [f EXCEPT !.prog = @ + 1], [NoArgs EXCEPT !.progress = p]))
       /\ UNCHANGED session_objs

\* lines 498-511: the work function calls completion_callback
WorkCompletion_mutant(e, i) ==
    LET f == futures[e][i]
    IN /\ i \in DOMAIN futures[e]
       /\ f.state = "RUNNING"
       /\ f.pc = "fn"
       /\ ~f.comp
       /\ SetFuture(e, i, EnterUpdate(execs[e].sid,
             [f EXCEPT !.comp = TRUE],
             [NoArgs EXCEPT !.status = "completed", !.file_path = "file"]))
       /\ UNCHANGED session_objs

WorkCompletion(e, i) ==
    LET f == futures[e][i]
    IN /\ i \in DOMAIN futures[e]
       /\ f.state = "RUNNING"
       /\ f.pc = "fn"
       /\ ~f.comp
       /\ SetFuture(e, i, EnterUpdate(execs[e].sid,
             [f EXCEPT !.comp = TRUE],
             [NoArgs EXCEPT !.status = "completed", !.progress = 100,
                            !.file_path = "file"]))
       /\ UNCHANGED session_objs

\* lines 564-576: the work function calls error_callback
WorkError(e, i) ==
    LET f == futures[e][i]
    IN /\ i \in DOMAIN futures[e]
       /\ f.state = "RUNNING"
       /\ f.pc = "fn"
       /\ ~f.err
       /\ SetFuture(e, i, EnterUpdate(execs[e].sid,
             [f EXCEPT !.err = TRUE],
             [NoArgs EXCEPT !.status = "failed", !.error_message = "error"]))
       /\ UNCHANGED session_objs

\* lines 548-555: the work function returns b, and so does the task
WorkReturn(e, i, b) ==
    LET f == futures[e][i]
    IN /\ i \in DOMAIN futures[e]
       /\ f.state = "RUNNING"
       /\ f.pc = "fn"
       /\ SetFuture(e, i, [f EXCEPT !.state = "FINISHED", !.pc = "done",
                                    !.result = IF b THEN "True" ELSE "False"])
       /\ UNCHANGED session_objs

\* lines 548, 557-562: the work function raises a fault
WorkRaise(e, i) ==
    LET f == futures[e][i]
    IN /\ i \in DOMAIN futures[e]
       /\ f.state = "RUNNING"
       /\ f.pc = "fn"
       /\ SetFuture(e, i, Except(execs[e].sid, [f EXCEPT !.fault = TRUE], "fault"))
       /\ UNCHANGED session_objs

\* ------------------------------------------------------- specifications
ItemIndexes == 1..MaxItems

\* create_session for one of the sessions an executor runs
CreateRunCall(c) == generate_session_id \in RunIds /\ CreateCall(c)

\* a work function that returns True once it has reported completion
WorkSucceed(e, i) ==
    /\ i \in DOMAIN futures[e]
    /\ futures[e][i].comp
    /\ WorkReturn(e, i, TRUE)

\* create_session after its first line
CreateStep(c) ==
    \/ SweepAcquire(c) \/ SweepScan(c) \/ Count(c)
    \/ InsertSession(c) \/ InsertLock(c) \/ InsertFutures(c)

\* cancel_session after its first line
CancelStep(c) == CancelCheck(c) \/ CancelLock(c)

\* cleanup_session after its first line, around its cancel_session call
CleanupStep(c) == CleanupCheck(c) \/ CleanupPop(c)

\* execute_session_downloads and its pool, apart from the except clause
ExecStep(e) ==
    \/ ExecRunCheck(e) \/ ExecRunLock(e) \/ ExecSubmit(e) \/ ExecRegister(e)
    \/ ExecWait(e) \/ ExecCompleteLock(e) \/ ExecFinally(e) \/ Dequeue(e)

\* the except clause of execute_session_downloads
ExecFaultStep(e) == ExecFaultCheck(e) \/ ExecFaultLock(e)

\* a task running any work function
TaskStep(e, i) ==
    \/ TaskCheck(e, i) \/ TaskLock(e, i)
    \/ \E p \in ProgressValues : WorkProgress(e, i, p)
    \/ WorkCompletion(e, i) \/ WorkError(e, i)
    \/ \E b \in BOOLEAN : WorkReturn(e, i, b)
    \/ WorkRaise(e, i)

\* a task running a work function that reports completion and returns True
TaskStepSucceeding(e, i) ==
    \/ TaskCheck(e, i) \/ TaskLock(e, i)
    \/ WorkCompletion(e, i)
    \/ WorkSucceed(e, i)

\* a task running a work function that reports completion and returns True,
\* or raises a fault
TaskStepFaulting(e, i) ==
    \/ TaskCheck(e, i) \/ TaskLock(e, i)
    \/ WorkCompletion(e, i)
    \/ WorkSucceed(e, i)
    \/ WorkRaise(e, i)

\* The registry under concurrent callers, with the clock: no executor.
NextRegistry ==
    \/ \E c \in Callers : CreateCall(c)
    \/ \E c \in Callers, s \in SessionIds : CancelCall(c, s)
    \/ \E c \in Callers, s \in SessionIds : CleanupCall(c, s)
    \/ \E c \in Callers : CreateStep(c)
    \/ \E c \in Callers : CancelStep(c)
    \/ \E c \in Callers : CleanupStep(c)
    \/ Tick

SpecRegistry == Init /\ [][NextRegistry]_vars

\* One client creates sessions, fills them and cancels them while one
\* executor runs them with any work function: no clock, no cleanup.
NextExec ==
    \/ CreateRunCall(1)
    \/ \E s \in RunIds : CancelCall(1, s)
    \/ CreateStep(1)
    \/ CancelStep(1)
    \/ \E s \in RunIds : AddDownload(s)
    \/ \E s \in RunIds, m \in ConcurrencyArgs : ExecCall(1, s, m)
    \/ ExecStep(1)
    \/ ExecFaultStep(1)
    \/ \E i \in ItemIndexes : TaskStep(1, i)

SpecExec == Init /\ [][NextExec]_vars

\* As SpecExec, without cancel_session.
NextRun ==
    \/ CreateRunCall(1)
    \/ CreateStep(1)
    \/ \E s \in RunIds : AddDownload(s)
    \/ \E s \in RunIds, m \in ConcurrencyArgs : ExecCall(1, s, m)
    \/ ExecStep(1)
    \/ ExecFaultStep(1)
    \/ \E i \in ItemIndexes : TaskStep(1, i)

SpecRun == Init /\ [][NextRun]_vars

\* Several execute_session_downloads calls, with a work function that always
\* succeeds, while one client creates, fills and cancels sessions.
NextCalls ==
    \/ CreateRunCall(1)
    \/ \E s \in RunIds : CancelCall(1, s)
    \/ CreateStep(1)
    \/ CancelStep(1)
    \/ \E s \in RunIds : AddDownload(s)
    \/ \E e \in Execs, s \in RunIds : ExecCall(e, s, 0)
    \/ \E e \in Execs : ExecStep(e)
    \/ \E e \in Execs, i \in ItemIndexes : TaskStepSucceeding(e, i)

SpecCalls == Init /\ [][NextCalls]_vars

\* One client calls the registry sequentially while the clock advances; the
\* client's thread is scheduled for as long as it can take a step.
NextSeq ==
    \/ CreateCall(1)
    \/ \E s \in SessionIds : CancelCall(1, s)
    \/ \E s \in SessionIds : CleanupCall(1, s)
    \/ CreateStep(1)
    \/ CancelStep(1)
    \/ CleanupStep(1)
    \/ Tick

SpecSeq ==
    /\ Init
    /\ [][NextSeq]_vars
    /\ WF_vars(CreateStep(1) \/ CancelStep(1) \/ CleanupStep(1))

\* One client creates, fills, cancels and cleans up sessions while one
\* executor runs them with a work function that succeeds or raises.
NextClean ==
    \/ CreateRunCall(1)
    \/ \E s \in RunIds : CancelCall(1, s)
    \/ \E s \in RunIds : CleanupCall(1, s)
    \/ CreateStep(1)
    \/ CancelStep(1)
    \/ CleanupStep(1)
    \/ \E s \in RunIds : AddDownload(s)
    \/ \E s \in RunIds, m \in ConcurrencyArgs : ExecCall(1, s, m)
    \/ ExecStep(1)
    \/ ExecFaultStep(1)
    \/ \E i \in ItemIndexes : TaskStepFaulting(1, i)

SpecClean == Init /\ [][NextClean]_vars

\* a task running a work function that may report completion and then
\* returns either value or raises a fault
TaskStepTerminating(e, i) ==
    \/ TaskCheck(e, i) \/ TaskLock(e, i)
    \/ WorkCompletion(e, i)
    \/ \E b \in BOOLEAN : WorkReturn(e, i, b)
    \/ WorkRaise(e, i)

\* datetime.now() advances once
TickOnce == now = 1 /\ Tick

\* update_download_item after its first line
UpdateStep(c) == UpdateCheck(c) \/ UpdateLock(c)

\* One client creates a session, fills it, updates its items with any
\* arguments and cancels it, while the clock advances: no executor.
NextUpdate ==
    \/ CreateRunCall(1)
    \/ CreateStep(1)
    \/ \E s \in RunIds : AddDownload(s)
    \/ \E s \in SessionIds, k \in ItemIds, a \in UpdateArgs :
          UpdateCall(1, s, k, a)
    \/ UpdateStep(1)
    \/ \E s \in RunIds : CancelCall(1, s)
    \/ CancelStep(1)
    \/ TickOnce

SpecUpdate == Init /\ [][NextUpdate]_vars

\* One client creates sessions, fills the first, updates the items of any
\* session with any arguments and cancels sessions: no clock, no executor.
NextFrame ==
    \/ CreateCall(1)
    \/ CreateStep(1)
    \/ \E s \in RunIds : AddDownload(s)
    \/ \E s \in SessionIds, k \in ItemIds, a \in UpdateArgs :
          UpdateCall(1, s, k, a)
    \/ UpdateStep(1)
    \/ \E s \in SessionIds : CancelCall(1, s)
    \/ CancelStep(1)

SpecFrame == Init /\ [][NextFrame]_vars

\* One client creates, fills and cancels sessions while one executor runs
\* them with the default pool size and a work function that succeeds, and
\* the clock advances: no cleanup.
NextStamp ==
    \/ CreateRunCall(1)
    \/ \E s \in RunIds : CancelCall(1, s)
    \/ CreateStep(1)
    \/ CancelStep(1)
    \/ \E s \in RunIds : AddDownload(s)
    \/ \E s \in RunIds : ExecCall(1, s, 0)
    \/ ExecStep(1)
    \/ \E i \in ItemIndexes : TaskStepSucceeding(1, i)
    \/ TickOnce

SpecStamp == Init /\ [][NextStamp]_vars

\* a work function that reports completion unless it has reported an error
WorkCompleteOnly(e, i) ==
    /\ i \in DOMAIN futures[e]
    /\ ~futures[e][i].err
    /\ WorkCompletion(e, i)

\* a work function that reports an error unless it has reported completion
WorkErrorOnly(e, i) ==
    /\ i \in DOMAIN futures[e]
    /\ ~futures[e][i].comp
    /\ WorkError(e, i)

\* a work function that returns False once it has reported an error
WorkFail(e, i) ==
    /\ i \in DOMAIN futures[e]
    /\ futures[e][i].err
    /\ WorkReturn(e, i, FALSE)

\* a task running a work function that keeps the contract: any progress
\* reports, then exactly one of completion_callback and error_callback, then
\* the matching boolean
TaskStepContract(e, i) ==
    \/ TaskCheck(e, i) \/ TaskLock(e, i)
    \/ \E p \in ProgressValues : WorkProgress(e, i, p)
    \/ WorkCompleteOnly(e, i) \/ WorkErrorOnly(e, i)
    \/ WorkSucceed(e, i) \/ WorkFail(e, i)

\* As SpecExec with a work function that keeps the contract.
NextContract ==
    \/ CreateRunCall(1)
    \/ \E s \in RunIds : CancelCall(1, s)
    \/ CreateStep(1)
    \/ CancelStep(1)
    \/ \E s \in RunIds : AddDownload(s)
    \/ \E s \in RunIds, m \in ConcurrencyArgs : ExecCall(1, s, m)
    \/ ExecStep(1)
    \/ ExecFaultStep(1)
    \/ \E i \in ItemIndexes : TaskStepContract(1, i)

SpecContract == Init /\ [][NextContract]_vars

\* downloader.py lines 60-66: the client starts execute_session_downloads
\* for a session that create_session has returned to it
ExecCreatedCall(e, s, m) == Returned(s) /\ ExecCall(e, s, m)

\* downloader.py lines 98-124, download_wrapper. The callbacks it is given
\* call update_download_item (lines 498-511, 564-589) and catch nothing, so
\* a KeyError raised there is raised inside download_wrapper's try block.
\* line 105: the progress report of the path that downloads
WrapperProgress(e, i) ==
    /\ i \in DOMAIN futures[e]
    /\ futures[e][i].prog = 0
    /\ WorkProgress(e, i, 5)

\* lines 103, 116: return True after completion_callback returned
WrapperSucceed(e, i) ==
    /\ i \in DOMAIN futures[e]
    /\ ~futures[e][i].err
    /\ WorkSucceed(e, i)

\* update_download_item's locked block reached from a callback: a KeyError
\* raised by a callback called in the try block is caught at line 121, and
\* error_callback is called with its description (line 123)
WrapperLock(e, i) ==
    LET s == execs[e].sid
        f == futures[e][i]
    IN /\ i \in DOMAIN futures[e]
       /\ IF /\ f.state = "RUNNING" /\ f.pc = "lock" /\ f.phase = "fn"
             /\ (s \notin session_locks \/ s \notin sessions)
          THEN /\ SetFuture(e, i, EnterUpdate(s, [f EXCEPT !.err = TRUE],
                      [NoArgs EXCEPT !.status = "failed",
                                     !.error_message = "KeyError"]))
               /\ UNCHANGED session_objs
          ELSE TaskLock(e, i)

\* a task running download_wrapper: the file is there already (line 99) or
\* not; the download raises or not (line 108); the file it made is there or
\* not (line 113)
TaskStepWrapper(e, i) ==
    \/ TaskCheck(e, i) \/ WrapperLock(e, i)
    \/ WrapperProgress(e, i)
    \/ WorkCompleteOnly(e, i) \/ WorkErrorOnly(e, i)
    \/ WrapperSucceed(e, i) \/ WorkFail(e, i)

\* downloader.py lines 64, 177: the pool size the downloader functions pass
DownloaderConcurrency == 3

\* create_session has just returned to the downloader function running in
\* thread c, which has not ended yet
InDownloader(c) == callers[c].pc = "idle" /\ callers[c].res = "created"

\* downloader.py lines 42-45, 150-158, 75-77, 187-189: a search or metadata
\* lookup made while the items of session s are built raises, and the
\* downloader function re-raises
LookupFail(c, s) ==
    /\ InDownloader(c)
    /\ s \in sessions
    /\ Returned(s)
    /\ NotExecuted(s)
    /\ session_objs[s].status = "pending"
    /\ callers' = [callers EXCEPT ![c] =
            [IdleCaller EXCEPT !.res = "LookupError", !.target = s]]
    /\ UNCHANGED <<sessions, session_objs, session_locks, active_futures,
                   cleanup_lock, now, execs, futures>>

\* downloader.py lines 47-59, 160-172: the downloader function adds an item
DownloaderAdd(c, s) == InDownloader(c) /\ AddDownload(s)

\* downloader.py lines 61-73, 174-185: the downloader function starts the
\* executor thread for its session and returns the session id
DownloaderStart(c, e, s) ==
    /\ InDownloader(c)
    /\ s \in sessions
    /\ session_objs[s].status = "pending"
    /\ ExecCreatedCall(e, s, DownloaderConcurrency)

\* One client runs the downloader functions, which create a session, build
\* its items and start an executor thread with download_wrapper; a lookup
\* may fail while the items are built.
NextDownloader ==
    \/ CreateCall(1)
    \/ CreateStep(1)
    \/ \E s \in SessionIds : DownloaderAdd(1, s)
    \/ \E s \in SessionIds : LookupFail(1, s)
    \/ \E s \in SessionIds : DownloaderStart(1, 1, s)
    \/ ExecStep(1)
    \/ \E i \in ItemIndexes : TaskStepWrapper(1, i)

SpecDownloader == Init /\ [][NextDownloader]_vars

\* As SpecDownloader without lookup failures, while the client also cancels
\* and cleans up sessions. The pool is always created, so the except clause
\* of execute_session_downloads is entered only when the session is gone and
\* its update_session_status call does nothing.
NextWrapper ==
    \/ CreateRunCall(1)
    \/ CreateStep(1)
    \/ \E s \in RunIds : DownloaderAdd(1, s)
    \/ \E s \in RunIds : DownloaderStart(1, 1, s)
    \/ \E s \in RunIds : CancelCall(1, s)
    \/ \E s \in RunIds : CleanupCall(1, s)
    \/ CancelStep(1)
    \/ CleanupStep(1)
    \/ ExecStep(1)
    \/ ExecFaultCheck(1)
    \/ \E i \in ItemIndexes : TaskStepWrapper(1, i)

SpecWrapper == Init /\ [][NextWrapper]_vars

\* As SpecExec for a client that runs the sessions it has created, with
\* every thread scheduled for as long as it can take a step: the client,
\* the executor with its pool, and each task, whose work function makes
\* finitely many calls and then returns or raises.
NextLive ==
    \/ CreateRunCall(1)
    \/ \E s \in RunIds : CancelCall(1, s)
    \/ CreateStep(1)
    \/ CancelStep(1)
    \/ \E s \in RunIds : AddDownload(s)
    \/ \E s \in RunIds, m \in ConcurrencyArgs : ExecCreatedCall(1, s, m)
    \/ ExecStep(1)
    \/ ExecFaultStep(1)
    \/ \E i \in ItemIndexes : TaskStepTerminating(1, i)

SpecLive ==
    /\ Init
    /\ [][NextLive]_vars
    /\ WF_vars(CreateStep(1) \/ CancelStep(1))
    /\ WF_vars(ExecStep(1) \/ ExecFaultStep(1))
    /\ \A i \in ItemIndexes : WF_vars(TaskStepTerminating(1, i))

\* ------------------------------------------------------------ the claims
Terminal == {"completed", "failed", "cancelled"}

\* C1: once a registered session's status is Completed, Failed or Cancelled
\* it keeps that status in every later state, until the session is removed.
C1_TerminalStatusKept ==
    [][\A s \in sessions \cap sessions' :
          session_objs[s].status \in Terminal
             => session_objs'[s].status = session_objs[s].status]_vars

\* the step in which caller c runs the locked block of cancel_session
CancelBlockStep(c) ==
    /\ callers[c].pc = "cancel_lock"
    /\ callers'[c].pc # "cancel_lock"

\* C2: cancel_session on a known session that is Pending or Running returns
\* True; right after it every item that was Queued or Downloading is Failed
\* with message "Session cancelled", every other item has all its fields
\* unchanged, the session is Cancelled and its completed_at is set.
C2_CancelEffect ==
    [][\A c \in Callers :
          LET s == callers[c].target
              old == session_objs[s]
              new == session_objs'[s]
          IN (/\ CancelBlockStep(c)
              /\ callers[c].op = "cancel"
              /\ s \in sessions
              /\ old.status \in ActiveStatuses)
             => /\ callers'[c].res = "True"
                /\ new.status = "cancelled"
                /\ new.completed_at # NoTime
                /\ Len(new.downloads) = Len(old.downloads)
                /\ \A i \in 1..Len(old.downloads) :
                      IF old.downloads[i].status \in {"queued", "downloading"}
                      THEN /\ new.downloads[i].status = "failed"
                           /\ new.downloads[i].error_message = "Session cancelled"
                      ELSE new.downloads[i] = old.downloads[i]]_vars

\* C2's case: a cancelled session with an item the cancellation failed and
\* an item that had completed before
C2_Witness ==
    \E c \in Callers, s \in sessions :
       /\ callers[c].res = "True"
       /\ session_objs[s].status = "cancelled"
       /\ \E i, j \in 1..Len(session_objs[s].downloads) :
             /\ session_objs[s].downloads[i].status = "completed"
             /\ session_objs[s].downloads[j].status = "failed"
             /\ session_objs[s].downloads[j].error_message = "Session cancelled"
             /\ session_objs[s].downloads[j].started_at # NoTime

\* C3: in every reachable state the number of registered sessions that are
\* Pending or Running is at most the configured maximum.
C3_ActiveSessionsCapped ==
    Cardinality({s \in sessions : session_objs[s].status \in ActiveStatuses})
       <= max_concurrent_sessions

\* the number of registered sessions that are Pending or Running
ActiveNow ==
    Cardinality({s \in sessions : session_objs[s].status \in ActiveStatuses})

\* C4: create_session reaching its capacity test with the active count at or
\* above the maximum fails with CapacityExceeded and adds no session, lock
\* or handle list; with the count below it, it registers exactly one new
\* session, under an id no session ever had, Pending and without items, and
\* returns it.
C4_CreateSession ==
    [][\A c \in Callers :
          /\ (callers[c].pc = "count" /\ callers'[c].pc # "count")
                => /\ (ActiveNow >= max_concurrent_sessions)
                         = (callers'[c].res = "CapacityExceeded")
                   /\ (ActiveNow < max_concurrent_sessions)
                         = (callers'[c].pc = "insert_session")
                   /\ UNCHANGED <<sessions, session_objs, session_locks,
                                  active_futures>>
          /\ (callers[c].pc = "insert_session" /\ callers'[c].pc # "insert_session")
                => /\ callers[c].sid \notin DOMAIN session_objs
                   /\ sessions' = sessions \cup {callers[c].sid}
                   /\ session_objs'[callers[c].sid].status = "pending"
                   /\ session_objs'[callers[c].sid].downloads = <<>>
                   /\ \A s \in DOMAIN session_objs :
                         session_objs'[s] = session_objs[s]
          /\ (callers[c].pc = "insert_lock" /\ callers'[c].pc # "insert_lock")
                => /\ session_locks' = session_locks \cup {callers[c].sid}
                   /\ UNCHANGED <<sessions, session_objs>>
          /\ (callers[c].pc = "insert_futures" /\ callers'[c].pc # "insert_futures")
                => /\ callers'[c].res = "created"
                   /\ DOMAIN active_futures' =
                         DOMAIN active_futures \cup {callers[c].sid}
                   /\ active_futures'[callers[c].sid] = <<>>
                   /\ UNCHANGED <<sessions, session_objs>>]_vars

\* C4's case: one call was refused at capacity while a session created by
\* another call is registered, Pending and empty
C4_Witness ==
    \E c \in Callers, s \in sessions :
       /\ callers[c].res = "CapacityExceeded"
       /\ session_objs[s].status = "pending"
       /\ session_objs[s].downloads = <<>>
       /\ s \in session_locks
       /\ s \in DOMAIN active_futures

\* C5: once the active count is below the maximum, the next create_session
\* call succeeds: a call in progress while fewer than the maximum of
\* sessions are Pending or Running ends by returning the new session.
C5_CreateSucceedsBelowCap ==
    (callers[1].op = "create" /\ ActiveNow < max_concurrent_sessions)
       ~> (callers[1].res = "created")

\* the step in which call e of execute_session_downloads tests its
\* preconditions
PreconditionStep(e) == execs[e].pc = "idle" /\ execs'[e].pc # "idle"

Rejected == {"SessionNotFound", "InvalidState"}

\* C6: execute_session_downloads fails with SessionNotFound for an unknown
\* id and with InvalidState for a session that is not Pending, changing no
\* session or item and never invoking the work function; a call made after
\* another call for the same session has returned fails with InvalidState.
C6_ExecutePreconditions ==
    [][\A e \in Execs :
          /\ PreconditionStep(e) =>
                LET s == execs'[e].sid
                IN /\ s \notin sessions => execs'[e].res = "SessionNotFound"
                   /\ (s \in sessions /\ session_objs[s].status # "pending")
                         => execs'[e].res = "InvalidState"
                   /\ execs'[e].res \in Rejected
                         => /\ execs'[e].pc = "done"
                            /\ UNCHANGED <<sessions, session_objs, session_locks,
                                           active_futures, futures>>
                   /\ (\E d \in Execs \ {e} :
                          /\ execs[d].sid = s
                          /\ execs[d].pc = "done"
                          /\ execs[d].res = "returned")
                         => execs'[e].res = "InvalidState"
          /\ execs[e].res \in Rejected
                => futures'[e] = <<>> /\ execs'[e] = execs[e]]_vars

\* C6's case: a second call for a session that a first call has run
C6_Witness ==
    \E e, d \in Execs :
       /\ execs[d].res = "returned"
       /\ Len(futures[d]) >= 1
       /\ execs[e].sid = execs[d].sid
       /\ execs[e].res = "InvalidState"
       /\ futures[e] = <<>>

\* the work function called completion_callback and returned True, or
\* error_callback and returned False
Contract(f) ==
    \/ f.comp /\ ~f.err /\ ~f.fault /\ f.result = "True"
    \/ f.err /\ ~f.comp /\ ~f.fault /\ f.result = "False"

Succeeded(e) == {i \in 1..Len(futures[e]) : futures[e][i].result = "True"}
NotSucceeded(e) == {i \in 1..Len(futures[e]) : futures[e][i].result # "True"}

\* C7: when execute_session_downloads returns for a session run without
\* cancellation or cleanup, with a work function that kept its contract for
\* every item and succeeded for at least one, completed_items is the number
\* of items it succeeded for, failed_items the number it failed for, and
\* the session is Completed.
C7_CountsAfterRun ==
    \A e \in Execs :
       (/\ execs[e].pc = "done"
        /\ execs[e].res = "returned"
        /\ \A i \in 1..Len(futures[e]) : Contract(futures[e][i])
        /\ Succeeded(e) # {})
          => /\ session_objs[execs[e].sid].completed_items
                   = Cardinality(Succeeded(e))
             /\ session_objs[execs[e].sid].failed_items
                   = Cardinality(NotSucceeded(e))
             /\ session_objs[execs[e].sid].status = "completed"

\* C7's case: a finished run with an item that succeeded and one that failed
C7_Witness ==
    \E e \in Execs :
       /\ execs[e].pc = "done"
       /\ execs[e].res = "returned"
       /\ \A i \in 1..Len(futures[e]) : Contract(futures[e][i])
       /\ Succeeded(e) # {}
       /\ NotSucceeded(e) # {}
       /\ session_objs[execs[e].sid].failed_items = 1

\* C8: after execute_session_downloads returns for a session with at least
\* one item, run without cancellation, the session is Failed when the work
\* function failed for every item and Completed otherwise.
C8_AllFailedIsFailed ==
    \A e \in Execs :
       (/\ execs[e].pc = "done"
        /\ execs[e].res = "returned"
        /\ Len(futures[e]) >= 1)
          => session_objs[execs[e].sid].status =
                IF Succeeded(e) = {} THEN "failed" ELSE "completed"

\* the work function of this task has been invoked
Invoked(f) == f.phase = "fn" \/ f.comp \/ f.err \/ f.fault \/ f.prog > 0

\* the item of task i of call e
ItemOf(e, i) == session_objs[execs[e].sid].downloads[i]

\* C9: if the work function raises a fault for an item, the item ends Failed
\* with the fault's description as error_message, the task's outcome is
\* false, the fault does not leave execute_session_downloads, and the work
\* function is still invoked for every other item of the session.
C9_FaultIsolated ==
    \A e \in Execs : \A i \in 1..Len(futures[e]) :
       (execs[e].pc = "done" /\ futures[e][i].fault)
          => /\ ItemOf(e, i).status = "failed"
             /\ ItemOf(e, i).error_message = "fault"
             /\ futures[e][i].result = "False"
             /\ execs[e].res = "returned"
             /\ \A j \in 1..Len(futures[e]) : Invoked(futures[e][j])

\* C9 as amended: for a session that is still registered, and for every
\* other item whose task was not cancelled before it started.
C9_FaultIsolatedWhileRegistered ==
    \A e \in Execs : \A i \in 1..Len(futures[e]) :
       (/\ execs[e].pc = "done"
        /\ futures[e][i].fault
        /\ execs[e].sid \in sessions)
          => /\ ItemOf(e, i).status = "failed"
             /\ ItemOf(e, i).error_message = "fault"
             /\ futures[e][i].result = "False"
             /\ execs[e].res = "returned"
             /\ \A j \in 1..Len(futures[e]) :
                   \/ Invoked(futures[e][j])
                   \/ futures[e][j].state = "CANCELLED_AND_NOTIFIED"

\* C9's case: a finished run of a registered session in which the work
\* function raised for one item and was invoked and succeeded for another
C9_Witness ==
    \E e \in Execs : \E i, j \in 1..Len(futures[e]) :
       /\ execs[e].pc = "done"
       /\ execs[e].sid \in sessions
       /\ futures[e][i].fault
       /\ ItemOf(e, i).error_message = "fault"
       /\ futures[e][j].result = "True"
       /\ ItemOf(e, j).status = "completed"

\* C10: after the task of an item for which the work function returned
\* False has finished, the item is Failed, has an error_message, and is
\* counted in the session's failed_items.
C10_FalseIsRecorded ==
    \A e \in Execs : \A i \in 1..Len(futures[e]) :
       (/\ futures[e][i].state = "FINISHED"
        /\ futures[e][i].result = "False"
        /\ ~futures[e][i].fault)
          => /\ ItemOf(e, i).status = "failed"
             /\ ItemOf(e, i).error_message # None
             /\ session_objs[execs[e].sid].failed_items
                   = CountStatus(session_objs[execs[e].sid].downloads, "failed")

\* the work function called completion_callback, and nothing else that
\* changes the item's status, and returned True
Completes(f) == f.comp /\ ~f.err /\ ~f.fault /\ f.result = "True"

\* C11: concurrent update_download_item calls for distinct items of a
\* session lose no update: after execute_session_downloads returns for a
\* session of N items, run without cancellation through a pool of any size
\* with a work function that reported completion and returned True for every
\* item, every item is Completed and completed_items = total_items = N.
C11_NoLostUpdate ==
    \A e \in Execs :
       (/\ execs[e].pc = "done"
        /\ execs[e].res = "returned"
        /\ \A i \in 1..Len(futures[e]) : Completes(futures[e][i]))
          => LET so == session_objs[execs[e].sid]
             IN /\ \A k \in 1..Len(so.downloads) :
                      so.downloads[k].status = "completed"
                /\ so.completed_items = so.total_items
                /\ so.total_items = Len(futures[e])
                /\ so.total_items = Len(so.downloads)

\* C11's case: two items run by a pool of three workers, both completed
C11_Witness ==
    \E e \in Execs :
       /\ execs[e].pc = "done"
       /\ execs[e].res = "returned"
       /\ execs[e].conc = max_workers
       /\ Len(futures[e]) = MaxItems
       /\ \A i \in 1..Len(futures[e]) : Completes(futures[e][i])
       /\ session_objs[execs[e].sid].completed_items = MaxItems

\* the task of item k has not started: it is not submitted yet, or its
\* future is still in the pool's queue
NotStarted(fs, k) ==
    k > Len(fs) \/ fs[k].state \in {"PENDING", "CANCELLED", "CANCELLED_AND_NOTIFIED"}

\* the task of item k can still start: it is not submitted yet and will be,
\* or it is queued and not cancelled
CanStart(fs, k) == k > Len(fs) \/ fs[k].state = "PENDING"

\* the execute_session_downloads call e has moved its session to Running
\* and dispatches or waits for its tasks
Dispatching(e) == execs[e].pc \in {"submit", "wait"}

\* C12: when cancel_session returns True for a session that
\* execute_session_downloads has moved to Running, every task that had not
\* started can no longer start, at whatever point of the dispatch, and a
\* task that cannot start is never started: the work function is not
\* invoked for its item.
C12_CancelPreventsStart ==
    [][/\ \A c \in Callers, e \in Execs :
             LET s == callers[c].target
             IN (/\ CancelBlockStep(c)
                 /\ callers'[c].res = "True"
                 /\ session_objs[s].status = "running"
                 /\ execs[e].sid = s
                 /\ Dispatching(e))
                => \A k \in 1..Len(session_objs[s].downloads) :
                      NotStarted(futures[e], k) => ~CanStart(futures'[e], k)
       /\ \A e \in Execs : \A k \in 1..Len(futures[e]) :
             (NotStarted(futures[e], k) /\ ~CanStart(futures[e], k))
                => NotStarted(futures'[e], k)]_vars

\* the step in which caller c runs the membership test of cancel_session
CancelCheckStep(c) ==
    /\ callers[c].pc = "cancel_check"
    /\ callers'[c].pc # "cancel_check"

\* C13: cancel_session returns False when the session id is unknown or the
\* session is already in a terminal status, and then changes nothing: the
\* session's status and completed_at and every item's status, error_message
\* and completed_at are as before.
C13_CancelRefusedIsNoOp ==
    [][\A c \in Callers :
          LET s == callers[c].target
          IN callers[c].op = "cancel" =>
                /\ (CancelCheckStep(c) /\ s \notin sessions)
                      => /\ callers'[c].res = "False"
                         /\ UNCHANGED <<sessions, session_objs, session_locks,
                                        active_futures, futures>>
                /\ (/\ CancelBlockStep(c)
                    /\ s \in sessions
                    /\ session_objs[s].status \in Terminal)
                      => /\ callers'[c].res = "False"
                         /\ UNCHANGED <<sessions, session_objs, session_locks,
                                        active_futures, futures>>]_vars

\* C13's case: a second cancel_session on a cancelled session returned False
C13_Witness ==
    \E c \in Callers, s \in sessions :
       /\ callers[c].res = "False"
       /\ callers[c].pc = "idle"
       /\ session_objs[s].status = "cancelled"
       /\ Len(session_objs[s].downloads) >= 1
       /\ session_objs[s].downloads[1].error_message = "Session cancelled"

\* C14: when the sweep of a create_session call finds a registered session
\* whose age exceeds the timeout, the call ends and the session is then
\* absent from the registry.
C14_SweepRemovesExpired ==
    \A s \in SessionIds :
       (/\ callers[1].op = "create"
        /\ callers[1].pc = "sweep_scan"
        /\ s \in sessions
        /\ callers[1].time - session_objs[s].created_at > SessionTimeout)
          ~> (callers[1].pc = "idle" /\ s \notin sessions)

\* the grace period the specification gives a finished session, shorter
\* than the age timeout
GracePeriod == SessionTimeout - 1

\* session s is finished and its grace period is over at current_time
GraceExpired(s, current_time) ==
    /\ session_objs[s].status \in Terminal
    /\ session_objs[s].completed_at # NoTime
    /\ current_time - session_objs[s].completed_at > GracePeriod

\* C15: the sweep of create_session also removes a session within the age
\* timeout that is in a terminal status with completed_at set more than the
\* grace period ago: when the sweep is over no such session is registered.
C15_GraceExpiry ==
    \A c \in Callers :
       (callers[c].op = "create" /\ callers[c].pc = "count")
          => \A s \in sessions : ~GraceExpired(s, callers[c].time)

\* the step in which call e of execute_session_downloads ends
ExecEndStep(e) == execs[e].pc # "done" /\ execs'[e].pc = "done"

\* C16: when an execute_session_downloads call that passed its precondition
\* checks ends, by normal completion, after a cancellation or by re-raising
\* an executor-level fault, active_futures has no entry for the session id.
C16_HandlesRemovedAtEnd ==
    [][\A e \in Execs :
          (ExecEndStep(e) /\ execs'[e].res \notin Rejected)
             => execs'[e].sid \notin DOMAIN active_futures']_vars

\* C16's case: a call that ended after a cancellation dropped one of its
\* tasks, for a session that is still registered
C16_Witness ==
    \E e \in Execs :
       /\ execs[e].pc = "done"
       /\ execs[e].res = "returned"
       /\ execs[e].sid \in sessions
       /\ \E i \in 1..Len(futures[e]) :
             futures[e][i].state = "CANCELLED_AND_NOTIFIED"
       /\ execs[e].sid \notin DOMAIN active_futures

C18_ExecuteReturns ==
    /\ \A e \in Execs :
          (execs[e].pc \notin {"idle", "done"}) ~> (execs[e].pc = "done")
    /\ [][\A e \in Execs :
             (/\ ExecEndStep(e)
              /\ execs'[e].res \notin Rejected
              /\ execs'[e].sid \in sessions')
                => session_objs'[execs'[e].sid].status \in Terminal]_vars

\* C18's case: a call that has returned although cancel_session cancelled
\* one of its tasks during the run, its session in a terminal status
C18_Witness ==
    \E e \in Execs :
       /\ execs[e].pc = "done"
       /\ execs[e].res = "returned"
       /\ \E i, j \in 1..Len(futures[e]) :
             /\ futures[e][i].state = "CANCELLED_AND_NOTIFIED"
             /\ futures[e][j].state = "FINISHED"
       /\ session_objs[execs[e].sid].status \in Terminal

\* the tasks of call e whose work function is executing
Executing(e) ==
    {i \in 1..Len(futures[e]) :
        futures[e][i].state = "RUNNING" /\ futures[e][i].phase = "fn"}

\* C19: during one execute_session_downloads call the number of items whose
\* work function is executing at the same moment never exceeds the
\* effective concurrency, and the work function is invoked at most once per
\* item: one task per item, and no task starts a second time.
C19_ConcurrencyBounded ==
    /\ [](\A e \in Execs :
             /\ Executing(e) # {} => Cardinality(Executing(e)) <= execs[e].conc
             /\ futures[e] # <<>> =>
                   Len(futures[e]) <= Len(session_objs[execs[e].sid].downloads)
             /\ \A i, j \in 1..Len(futures[e]) :
                   futures[e][i].item = futures[e][j].item => i = j)
    /\ [][\A e \in Execs : \A i \in 1..Len(futures[e]) :
             futures[e][i].phase # "start"
                => futures'[e][i].phase # "start"]_vars

\* C19's case: a pool of one worker executing the work function for one
\* item while the task of another item waits in the queue
C19_Witness ==
    \E e \in Execs :
       /\ execs[e].conc = 1
       /\ Cardinality(Executing(e)) = 1
       /\ \E j \in 1..Len(futures[e]) : futures[e][j].state = "PENDING"

\* the status changes the item state machine allows
ItemTransitions ==
    {<<"queued", "downloading">>, <<"downloading", "completed">>,
     <<"downloading", "failed">>, <<"queued", "failed">>}

\* C20: under any interleaving of the executor's tasks and cancel_session,
\* every status change of an item is Queued -> Downloading, Downloading ->
\* Completed, Downloading -> Failed, or Queued -> Failed by cancellation;
\* a Completed or Failed item never changes status again.
C20_ItemStateMachine ==
    [][\A s \in DOMAIN session_objs :
          \A k \in 1..Len(session_objs[s].downloads) :
             LET old == session_objs[s].downloads[k].status
                 new == session_objs'[s].downloads[k].status
             IN old # new =>
                   /\ <<old, new>> \in ItemTransitions
                   /\ (old = "queued" /\ new = "failed")
                         => \E c \in Callers : CancelBlockStep(c)]_vars

\* C21: in every reachable state an item whose error_message is set is
\* Failed, also when the session is cancelled while the task of a
\* Downloading item is executing and the task then reports completion.
C21_ErrorMessageOnlyWhenFailed ==
    \A s \in DOMAIN session_objs :
       \A k \in 1..Len(session_objs[s].downloads) :
          session_objs[s].downloads[k].error_message # None
             => session_objs[s].downloads[k].status = "failed"

\* the step in which caller c runs the locked block of update_download_item
UpdateBlockStep(c) ==
    /\ callers[c].pc = "update_lock"
    /\ callers'[c].pc # "update_lock"

\* C22: update_download_item is idempotent on started_at: the first update
\* of an item to Downloading sets started_at, and a later update of the same
\* item to Downloading leaves started_at at its first value.
C22_StartedAtSetOnce ==
    [][\A c \in Callers :
          LET s == callers[c].target
              k == FindItem(session_objs[s].downloads, callers[c].item)
          IN (/\ UpdateBlockStep(c)
              /\ s \in sessions
              /\ callers[c].args.status = "downloading"
              /\ k # 0)
             => LET old == session_objs[s].downloads[k].started_at
                    new == session_objs'[s].downloads[k].started_at
                IN IF old = NoTime THEN new = now ELSE new = old]_vars

\* C22's case: an item first set Downloading at one time, finished at a
\* later time and then set Downloading again, with its first started_at
C22_Witness ==
    \E s \in sessions :
       \E k \in 1..Len(session_objs[s].downloads) :
          /\ session_objs[s].downloads[k].status = "downloading"
          /\ session_objs[s].downloads[k].started_at # NoTime
          /\ session_objs[s].downloads[k].started_at
                < session_objs[s].downloads[k].completed_at

\* C23: once a session's completed_at is set, no step changes it
C23_SessionCompletedAtOnce ==
    [][\A s \in DOMAIN session_objs :
          session_objs[s].completed_at # NoTime
             => session_objs'[s].completed_at = session_objs[s].completed_at]_vars

\* C24: once an item's completed_at is set, no step changes it
C24_ItemCompletedAtOnce ==
    [][\A s \in DOMAIN session_objs :
          \A k \in 1..Len(session_objs[s].downloads) :
             session_objs[s].downloads[k].completed_at # NoTime
                => session_objs'[s].downloads[k].completed_at
                      = session_objs[s].downloads[k].completed_at]_vars

\* a step of cleanup_session called by a client (not by the sweep)
CleanupOp(c) == callers[c].op = "cleanup"

\* C25: cleanup_session on a registered session, whatever its status, goes
\* through cancel_session, which marks every Queued or Downloading item of a
\* session that is not terminal Failed, then returns True with the id absent
\* from sessions, session_locks and active_futures; on an id that is not
\* registered it returns False and changes nothing.
C25_CleanupSession ==
    [][\A c \in Callers :
          LET s == callers[c].target
          IN CleanupOp(c) =>
             /\ (callers[c].pc = "cleanup_check" /\ callers'[c].pc # "cleanup_check")
                => IF s \in sessions
                   THEN callers'[c].pc = "cancel_check"
                   ELSE /\ callers'[c].res = "False"
                        /\ UNCHANGED <<sessions, session_objs, session_locks,
                                       active_futures, futures>>
             /\ (callers[c].pc = "cancel_check" /\ callers'[c].pc # "cancel_check")
                => callers'[c].pc = "cancel_lock"
             /\ CancelBlockStep(c)
                => /\ callers'[c].pc = "cleanup_pop"
                   /\ session_objs[s].status \in ActiveStatuses
                      => \A i \in 1..Len(session_objs[s].downloads) :
                            session_objs[s].downloads[i].status
                                  \in {"queued", "downloading"}
                               => session_objs'[s].downloads[i].status = "failed"
             /\ (callers[c].pc = "cleanup_pop" /\ callers'[c].pc # "cleanup_pop")
                => /\ callers'[c].res = "True"
                   /\ s \notin sessions'
                   /\ s \notin session_locks'
                   /\ s \notin DOMAIN active_futures']_vars

\* C25's case: cleanup_session has returned True for a session the executor
\* is still running; the session is gone from the three maps and an item of
\* it was marked Failed by the cancellation
C25_Witness ==
    \E s \in DOMAIN session_objs :
       /\ callers[1].pc = "idle" /\ callers[1].res = "True"
       /\ s \notin sessions
       /\ s \notin session_locks
       /\ s \notin DOMAIN active_futures
       /\ execs[1].sid = s /\ execs[1].pc # "idle"
       /\ session_objs[s].status = "cancelled"
       /\ \E i \in 1..Len(session_objs[s].downloads) :
             /\ session_objs[s].downloads[i].status = "failed"
             /\ session_objs[s].downloads[i].error_message = "Session cancelled"

\* C26: update_download_item that finds its item changes, on that item, the
\* fields passed to it (a progress of 0 included), started_at only with a
\* passed Downloading and completed_at only with a passed Completed or
\* Failed; it recomputes the session's two counters and changes no other
\* field of the session, no other item and no other session.
C26_UpdateFrame ==
    [][\A c \in Callers :
          LET s == callers[c].target
              a == callers[c].args
              old == session_objs[s]
              new == session_objs'[s]
              k == FindItem(old.downloads, callers[c].item)
          IN (UpdateBlockStep(c) /\ s \in sessions /\ k # 0)
             => /\ \A t \in DOMAIN session_objs \ {s} :
                      session_objs'[t] = session_objs[t]
                /\ DOMAIN session_objs' = DOMAIN session_objs
                /\ new = [old EXCEPT !.downloads = new.downloads,
                                     !.completed_items = new.completed_items,
                                     !.failed_items = new.failed_items]
                /\ new.completed_items = CountStatus(new.downloads, "completed")
                /\ new.failed_items = CountStatus(new.downloads, "failed")
                /\ Len(new.downloads) = Len(old.downloads)
                /\ \A i \in 1..Len(old.downloads) :
                      i # k => new.downloads[i] = old.downloads[i]
                /\ LET o == old.downloads[k]
                       n == new.downloads[k]
                   IN /\ n.id = o.id
                      /\ n.status = IF a.status # None THEN a.status ELSE o.status
                      /\ n.progress = IF a.progress # NoProgress
                                      THEN a.progress ELSE o.progress
                      /\ n.error_message = IF a.error_message # None
                                           THEN a.error_message ELSE o.error_message
                      /\ n.file_path = IF a.file_path # None
                                       THEN a.file_path ELSE o.file_path
                      /\ a.status # "downloading" => n.started_at = o.started_at
                      /\ a.status \notin {"completed", "failed"}
                            => n.completed_at = o.completed_at]_vars

\* C26's case: while a second session is registered, an item of the first
\* session that its cancellation had marked Failed has been updated to
\* Completed with progress 100 and a file path and then had a progress of 0
\* applied; the other item is as the cancellation left it
C26_Witness ==
    /\ {1, 2} \subseteq DOMAIN session_objs
    /\ 2 \in sessions
    /\ Len(session_objs[1].downloads) = 2
    /\ session_objs[1].completed_items = 1
    /\ \E k \in 1..2 :
          /\ session_objs[1].downloads[k].status = "completed"
          /\ session_objs[1].downloads[k].error_message = "Session cancelled"
          /\ session_objs[1].downloads[k].file_path = "file"
          /\ session_objs[1].downloads[k].progress = 0
          /\ session_objs[1].downloads[3 - k].status = "failed"
          /\ session_objs[1].downloads[3 - k].progress = 0
          /\ session_objs[1].downloads[3 - k].file_path = None

\* C27: update_download_item with a session id that is not registered, or
\* with an item id no item of the session has, changes no field of any
\* session or item, the counters included
C27_UnknownIsNoOp ==
    [][\A c \in Callers :
          LET s == callers[c].target
          IN /\ (callers[c].pc = "update_check" /\ callers'[c].pc # "update_check"
                 /\ s \notin sessions)
                => UNCHANGED <<sessions, session_objs, session_locks,
                               active_futures, futures>>
             /\ (UpdateBlockStep(c) /\ s \in sessions
                 /\ FindItem(session_objs[s].downloads, callers[c].item) = 0)
                => UNCHANGED <<sessions, session_objs, session_locks,
                               active_futures, futures>>]_vars

\* C28: every create_session call ends, by returning a session or by
\* failing, whatever its sweep finds: the calling thread, scheduled for as
\* long as it can take a step, never waits forever for a lock
C28_CreateTerminates ==
    \A c \in Callers :
       (callers[c].op = "create") ~> (callers[c].pc = "idle")

\* the handle of task i of call e is in the handle list registered for s
Registered(s, e, i) ==
    /\ s \in DOMAIN active_futures
    /\ \E k \in 1..Len(active_futures[s]) : active_futures[s][k] = <<e, i>>

\* C29: while execute_session_downloads dispatches and waits for its tasks,
\* a task that is executing or has finished has its handle in the handle
\* list registered for the session
C29_RegisteredBeforeStart ==
    \A e \in Execs :
       Dispatching(e)
          => \A i \in 1..Len(futures[e]) :
                futures[e][i].state \in {"RUNNING", "FINISHED"}
                   => Registered(execs[e].sid, e, i)

\* call e of execute_session_downloads has passed the tests of lines 608-615
Passed(e) == execs[e].pc # "idle" /\ execs[e].res \notin Rejected

\* C30: of the execute_session_downloads calls made for one session, at most
\* one passes the Pending test and dispatches tasks, so the work function is
\* invoked at most once per item of the session
C30_OneExecutePasses ==
    \A e1 \in Execs, e2 \in Execs :
       (e1 # e2 /\ execs[e1].sid = execs[e2].sid)
          => /\ ~(Passed(e1) /\ Passed(e2))
             /\ \A i \in DOMAIN futures[e1] \cap DOMAIN futures[e2] :
                   ~(Invoked(futures[e1][i]) /\ Invoked(futures[e2][i]))

\* session s has its entry in the session map and in the lock map
Present(s) == s \in sessions /\ s \in session_locks

\* C31: update_download_item, update_session_status and cancel_session
\* never fail on a missing lock or session entry of a session that
\* create_session has returned: whenever one of them, having passed its
\* membership test, enters its locked block, the session and its lock are
\* still there, whatever cleanup_session does meanwhile
C31_NoFaultOnRemoval ==
    [][/\ \A c \in Callers :
             (callers[c].pc \in {"cancel_lock", "update_lock"}
              /\ callers'[c].pc # callers[c].pc
              /\ Returned(callers[c].target))
                => Present(callers[c].target)
       /\ \A e \in Execs :
             (execs[e].pc \in {"run_lock", "complete_lock", "fault_lock"}
              /\ execs'[e].pc # execs[e].pc
              /\ Returned(execs[e].sid))
                => Present(execs[e].sid)
       /\ \A e \in Execs : \A i \in DOMAIN futures[e] :
             (futures[e][i].state = "RUNNING" /\ futures[e][i].pc = "lock"
              /\ futures'[e][i] # futures[e][i]
              /\ Returned(execs[e].sid))
                => Present(execs[e].sid)]_vars

\* the stored counters of session record s agree with its items' statuses
CountersAgree(s) ==
    /\ s.completed_items = CountStatus(s.downloads, "completed")
    /\ s.failed_items = CountStatus(s.downloads, "failed")

\* C32: right after the locked block of update_download_item, and right
\* after cancel_session marked items Failed, the session's stored
\* completed_items and failed_items are the numbers of its Completed and
\* Failed items
C32_CountersAfterOperation ==
    [][\A c \in Callers :
          LET s == callers[c].target
          IN ((UpdateBlockStep(c) \/ (CancelBlockStep(c) /\ callers'[c].res = "True"))
              /\ Present(s))
             => CountersAgree(session_objs'[s])]_vars

\* a sweep holds the cleanup lock and iterates over self.sessions
Iterating == \E c \in Callers : callers[c].pc = "sweep_scan" /\ cleanup_lock = c

\* C33: while a sweep holding the cleanup lock iterates over the session
\* map, no step inserts into or removes from the session map, the lock map
\* or the handle map
C33_NoMutationUnderSweep ==
    [][Iterating => /\ sessions' = sessions
                    /\ session_locks' = session_locks
                    /\ DOMAIN active_futures' = DOMAIN active_futures]_vars

\* call e of execute_session_downloads has returned normally
ReturnedNormally(e) == execs[e].pc = "done" /\ execs[e].res = "returned"

\* C34: when execute_session_downloads has returned normally, with a work
\* function that keeps the contract, every item of the session is Completed
\* or Failed, whenever cancel_session was called during the run
C34_NoItemLeftActive ==
    \A e \in Execs :
       ReturnedNormally(e)
          => \A k \in 1..Len(session_objs[execs[e].sid].downloads) :
                session_objs[execs[e].sid].downloads[k].status
                   \in {"completed", "failed"}

\* C34's case: the call has returned normally for a session of two items
\* that was cancelled during the run: one task was cancelled in the queue,
\* the other ran and its item was completed
C34_Witness ==
    \E e \in Execs :
       /\ ReturnedNormally(e)
       /\ Len(futures[e]) = 2
       /\ \E i \in 1..2 :
             /\ futures[e][i].state = "CANCELLED_AND_NOTIFIED"
             /\ futures[e][3 - i].state = "FINISHED"
             /\ session_objs[execs[e].sid].downloads[i].error_message
                   = "Session cancelled"
             /\ session_objs[execs[e].sid].downloads[3 - i].status = "completed"

\* session s was cancelled while it was Pending: it is Cancelled, was never
\* set Running and no execute_session_downloads call had passed its tests
CancelledPending(s) ==
    /\ s \in sessions
    /\ session_objs[s].status = "cancelled"
    /\ session_objs[s].started_at = NoTime
    /\ \A e \in Execs : execs[e].sid = s => ~Passed(e)

\* C35: for a session cancelled while Pending, every item is Failed with
\* message "Session cancelled", the work function has been invoked for none
\* of them, an execute_session_downloads call made now fails with
\* InvalidState and submits nothing, and no step changes the session
C35_CancelledPendingStays ==
    [][\A s \in SessionIds :
          CancelledPending(s)
             => /\ \A k \in 1..Len(session_objs[s].downloads) :
                      /\ session_objs[s].downloads[k].status = "failed"
                      /\ session_objs[s].downloads[k].error_message
                            = "Session cancelled"
                /\ \A e \in Execs :
                      (PreconditionStep(e) /\ execs'[e].sid = s)
                         => /\ execs'[e].res = "InvalidState"
                            /\ execs'[e].pc = "done"
                /\ \A e \in Execs : execs'[e].sid = s => futures'[e] = <<>>
                /\ session_objs'[s] = session_objs[s]
                /\ CancelledPending(s)']_vars

\* C35's case: execute_session_downloads has failed with InvalidState for a
\* session of two items that had been cancelled while Pending
C35_Witness ==
    \E s \in SessionIds, e \in Execs :
       /\ CancelledPending(s)
       /\ Len(session_objs[s].downloads) = 2
       /\ execs[e].sid = s
       /\ execs[e].pc = "done"
       /\ execs[e].res = "InvalidState"

\* C36: when a downloader function has ended by raising after its
\* create_session call succeeded, the session it created is not left
\* Pending or Running in the registry
C36_NoSessionLeftPending ==
    \A c \in Callers :
       callers[c].res = "LookupError"
          => ~(/\ callers[c].target \in sessions
               /\ session_objs[callers[c].target].status \in ActiveStatuses)

\* C37: a task that has invoked download_wrapper and has ended called
\* exactly one of completion_callback and error_callback, got True exactly
\* when it called completion_callback, and no fault left download_wrapper
C37_WrapperKeepsContract ==
    \A e \in Execs : \A i \in 1..Len(futures[e]) :
       (futures[e][i].state = "FINISHED" /\ Invoked(futures[e][i]))
          => /\ futures[e][i].comp # futures[e][i].err
             /\ (futures[e][i].result = "True") <=> futures[e][i].comp
             /\ futures[e][i].result \in {"True", "False"}
             /\ ~futures[e][i].fault

TaskBlockStep(e, i) ==
    /\ i \in DOMAIN futures[e]
    /\ futures[e][i].state = "RUNNING"
    /\ futures[e][i].pc = "lock"
    /\ futures'[e][i] # futures[e][i]

\* C39: a task has not invoked the work function before its first update;
\* on a registered session that update leaves its item Downloading and the
\* work function is invoked next; and the update made by a completion
\* callback called with a path leaves the item Completed with progress 100
\* and that path
C39_DownloadingThenCompleted ==
    [][\A e \in Execs : \A i \in DOMAIN futures[e] :
          LET f == futures[e][i]
              s == execs[e].sid
              new == session_objs'[s].downloads[i]
          IN /\ f.phase = "start" => ~Invoked(f)
             /\ (TaskBlockStep(e, i) /\ f.phase = "start" /\ Present(s))
                   => /\ new.status = "downloading"
                      /\ futures'[e][i].pc = "fn"
             /\ (TaskBlockStep(e, i) /\ f.phase = "fn" /\ Present(s)
                 /\ f.args.status = "completed")
                   => /\ f.args.file_path # None
                      /\ new.status = "completed"
                      /\ new.progress = 100
                      /\ new.file_path = f.args.file_path]_vars

\* C39's case: an item that its task set Downloading and whose completion
\* callback has acted on the registered session
C39_Witness ==
    \E e \in Execs : \E i \in DOMAIN futures[e] :
       /\ Present(execs[e].sid)
       /\ futures[e][i].comp
       /\ futures[e][i].pc = "fn"
       /\ ItemOf(e, i).started_at # NoTime
       /\ ItemOf(e, i).status = "completed"
       /\ ItemOf(e, i).progress = 100
       /\ ItemOf(e, i).file_path = "file"

\* a registry operation or an execute_session_downloads call ends in this
\* step
OperationEnds ==
    \/ \E c \in Callers : callers[c].pc # "idle" /\ callers'[c].pc = "idle"
    \/ \E e \in Execs : execs[e].pc # "done" /\ execs'[e].pc = "done"

\* C40: right after an operation has ended, the session map and the lock
\* map hold the same ids and every id of the handle map is in the session
\* map
C40_MapsAgree ==
    [][OperationEnds => /\ sessions' = session_locks'
                        /\ DOMAIN active_futures' \subseteq sessions']_vars

====
